---- MODULE Spec2Model ----
(***************************************************************************)
(* Port agent packet codec (src/port_agent/packet.py): the XOR checksum,   *)
(* the "!BBBBHHd" header layout, makepacket, and the two-phase             *)
(* ReceivedPacket (constructor, then validate).                            *)
(*                                                                         *)
(* A buffer (bytearray) is a sequence of bytes 0..255.  A Python number is *)
(* a record [kind, sign, exp, bits]: a float is its IEEE-754 double        *)
(* (sign, 11-bit biased exponent, 52 fraction bits, most significant       *)
(* first); a long is its sign and its magnitude in binary, most            *)
(* significant bit first, no leading zero.  Wide values are kept as bit    *)
(* sequences so that no 64-bit quantity is squeezed into a model integer.  *)
(***************************************************************************)
EXTENDS Integers, Sequences, FiniteSets

\* ------------------------------------------------------------- bounds
\* Longest payload handed to makepacket / appended to an arbitrary header.
MaxLen == 2
\* The caller may hand the constructor HEADER_SIZE - Slack .. HEADER_SIZE + Slack bytes.
Slack == 1

\* ---------------------------------------------------------- constants
SYNC == <<163, 157, 122>>
HEADER_SIZE == 16
MAX_PACKET_SIZE == 65536

\* ------------------------------------------------------- bit helpers
RECURSIVE Zeros(_)
Zeros(n) == IF n <= 0 THEN <<>> ELSE <<0>> \o Zeros(n - 1)

RECURSIVE IntToBits(_, _)
IntToBits(v, w) == IF w = 0 THEN <<>> ELSE IntToBits(v \div 2, w - 1) \o <<v % 2>>

RECURSIVE BitsToInt(_)
BitsToInt(b) ==
  IF b = <<>> THEN 0 ELSE 2 * BitsToInt(SubSeq(b, 1, Len(b) - 1)) + b[Len(b)]

RECURSIVE BytesToBits(_)
BytesToBits(bs) == IF bs = <<>> THEN <<>> ELSE IntToBits(Head(bs), 8) \o BytesToBits(Tail(bs))

RECURSIVE BitsToBytes(_)
BitsToBytes(b) ==
  IF b = <<>> THEN <<>>
  ELSE <<BitsToInt(SubSeq(b, 1, 8))>> \o BitsToBytes(SubSeq(b, 9, Len(b)))

\* b + 1 on a fixed-width bit sequence, wrapping to all zeros
RECURSIVE Incr(_)
Incr(b) ==
  IF b = <<>> THEN <<>>
  ELSE IF b[Len(b)] = 0 THEN SubSeq(b, 1, Len(b) - 1) \o <<1>>
  ELSE Incr(SubSeq(b, 1, Len(b) - 1)) \o <<0>>

\* Python's int ^ int on non-negative ints
RECURSIVE Xor(_, _)
Xor(a, b) ==
  IF a = 0 THEN b
  ELSE IF b = 0 THEN a
  ELSE ((a + b) % 2) + 2 * Xor(a \div 2, b \div 2)

\* ----------------------------------------------------- Python numbers
PyFloat(sign, exp, frac) == [kind |-> "float", sign |-> sign, exp |-> exp, bits |-> frac]
PyLong(sign, mag) == [kind |-> "long", sign |-> sign, exp |-> 0, bits |-> mag]

IsNaN(x) == x.kind = "float" /\ x.exp = 2047 /\ x.bits # Zeros(52)
IsZero(x) == x.kind = "float" /\ x.exp = 0 /\ x.bits = Zeros(52)

\* long -> C double (PyFloat_AsDouble on a long: round to nearest, ties to even)
LongToDouble(x) ==
  LET n == Len(x.bits)
      tail == SubSeq(x.bits, 2, n)
  IN  IF n = 0 THEN PyFloat(0, 0, Zeros(52))
      ELSE IF n <= 53 THEN PyFloat(x.sign, n - 1 + 1023, tail \o Zeros(53 - n))
      ELSE LET frac0 == SubSeq(tail, 1, 52)
               rest == SubSeq(tail, 53, n - 1)
               sticky == \E i \in 2..Len(rest) : rest[i] = 1
               up == rest[1] = 1 /\ (sticky \/ frac0[52] = 1)
           IN  IF ~up THEN PyFloat(x.sign, n - 1 + 1023, frac0)
               ELSE IF frac0 = [i \in 1..52 |-> 1]
                    THEN PyFloat(x.sign, n + 1023, Zeros(52))
                    ELSE PyFloat(x.sign, n - 1 + 1023, Incr(frac0))

\* the conversion above dropped no set bit
LongExact(x) ==
  Len(x.bits) <= 53 \/ \A i \in 54..Len(x.bits) : x.bits[i] = 0

\* float == float
FloatEq(a, b) == ~IsNaN(a) /\ ~IsNaN(b) /\ (a = b \/ (IsZero(a) /\ IsZero(b)))

\* Python's == on numbers (a long and a float compare by exact value)
PyEq(a, b) ==
  IF a.kind = "float" /\ b.kind = "float" THEN FloatEq(a, b)
  ELSE IF a.kind = "long" /\ b.kind = "long" THEN a = b
  ELSE IF a.kind = "long" THEN LongExact(a) /\ FloatEq(LongToDouble(a), b)
  ELSE LongExact(b) /\ FloatEq(a, LongToDouble(b))

\* struct format 'd', network byte order: 8 bytes of the IEEE double
pack_d(x) ==
  LET f == IF x.kind = "float" THEN x ELSE LongToDouble(x)
  IN  BitsToBytes(<<f.sign>> \o IntToBits(f.exp, 11) \o f.bits)

unpack_d(bs) ==
  LET b == BytesToBits(bs)
  IN  PyFloat(b[1], BitsToInt(SubSeq(b, 2, 12)), SubSeq(b, 13, 64))

\* ------------------------------------------------------------ codec
\* mutant: "n |= datum" for "n ^= datum"
RECURSIVE Or(_, _)
Or(a, b) ==
  IF a = 0 THEN b
  ELSE IF b = 0 THEN a
  ELSE (IF (a % 2) + (b % 2) > 0 THEN 1 ELSE 0) + 2 * Or(a \div 2, b \div 2)

RECURSIVE calculateChecksum_or(_, _)
calculateChecksum_or(data, seed) ==
  IF data = <<>> THEN seed
  ELSE calculateChecksum_or(Tail(data), Or(seed, Head(data)))

\* mutant: "n = 0" for "n = seed"
RECURSIVE calculateChecksum_noseed(_, _)
calculateChecksum_noseed(data, seed) ==
  IF data = <<>> THEN 0
  ELSE Xor(calculateChecksum_noseed(Tail(data), seed), Head(data))

RECURSIVE calculateChecksum(_, _)
calculateChecksum(data, seed) ==
  IF data = <<>> THEN seed
  ELSE calculateChecksum(Tail(data), Xor(seed, Head(data)))

\* header_struct.pack_into(buf, 0, ...): the first 16 bytes of buf are rewritten
pack_header(buf, msgtype, pktsize, checksum, timestamp) ==
  SYNC \o <<msgtype, pktsize \div 256, pktsize % 256, checksum \div 256, checksum % 256>>
       \o pack_d(timestamp) \o SubSeq(buf, HEADER_SIZE + 1, Len(buf))

unpack_header(buf) ==
  [sync |-> SubSeq(buf, 1, 3),
   msgtype |-> buf[4],
   pktsize |-> buf[5] * 256 + buf[6],
   checksum |-> buf[7] * 256 + buf[8],
   timestamp |-> unpack_d(SubSeq(buf, 9, 16))]

\* mutant: the checksum is computed before the payload is copied in
makepacket_early(msgtype, timestamp, data) ==
  LET pktsize == HEADER_SIZE + Len(data)
      pkt0 == Zeros(pktsize)
      pkt1 == pack_header(pkt0, msgtype, pktsize, 0, timestamp)
      checksum == calculateChecksum(pkt1, 0)
      pkt2 == SubSeq(pkt1, 1, HEADER_SIZE) \o data
  IN  pack_header(pkt2, msgtype, pktsize, checksum, timestamp)

makepacket(msgtype, timestamp, data) ==
  LET pktsize == HEADER_SIZE + Len(data)
      pkt0 == Zeros(pktsize)
      pkt1 == pack_header(pkt0, msgtype, pktsize, 0, timestamp)
      pkt2 == SubSeq(pkt1, 1, HEADER_SIZE) \o data
      checksum == calculateChecksum(pkt2, 0)
  IN  pack_header(pkt2, msgtype, pktsize, checksum, timestamp)

\* ReceivedPacket.__init__(header): the exception raised (type "None" when it
\* returns), the caller's buffer afterwards, and the object's attributes
NoError == [type |-> "None", args |-> <<>>]
Raise(type, args) == [type |-> type, args |-> args]

NoObject ==
  [msgtype |-> 0, pktsize |-> 0, checksum |-> 0, timestamp |-> PyFloat(0, 0, Zeros(52)),
   datasize |-> 0, hasdata |-> FALSE, data |-> <<>>]

\* mutant: the sync marker is compared before the length
ReceivedPacket_sync_first(header) ==
  IF SubSeq(header, 1, 3) # SYNC
  THEN [err |-> Raise("SyncError", SubSeq(header, 1, 3)), header |-> header, self |-> NoObject]
  ELSE IF Len(header) # HEADER_SIZE
  THEN [err |-> Raise("HeaderSizeError", <<Len(header)>>), header |-> header, self |-> NoObject]
  ELSE LET u == unpack_header(header)
       IN  [err |-> NoError,
            header |-> pack_header(header, u.msgtype, u.pktsize, 0, u.timestamp),
            self |-> [msgtype |-> u.msgtype, pktsize |-> u.pktsize,
                      checksum |-> u.checksum, timestamp |-> u.timestamp,
                      datasize |-> u.pktsize - HEADER_SIZE,
                      hasdata |-> FALSE, data |-> <<>>]]

\* mutant: the checksum field is zeroed before the sync marker is compared
ReceivedPacket_zero_first(header) ==
  IF Len(header) # HEADER_SIZE
  THEN [err |-> Raise("HeaderSizeError", <<Len(header)>>), header |-> header, self |-> NoObject]
  ELSE LET u == unpack_header(header)
           zeroed == SubSeq(header, 1, 6) \o <<0, 0>> \o SubSeq(header, 9, Len(header))
       IN  IF u.sync # SYNC
           THEN [err |-> Raise("SyncError", u.sync), header |-> zeroed, self |-> NoObject]
           ELSE [err |-> NoError,
                 header |-> zeroed,
                 self |-> [msgtype |-> u.msgtype, pktsize |-> u.pktsize,
                           checksum |-> u.checksum, timestamp |-> u.timestamp,
                           datasize |-> u.pktsize - HEADER_SIZE,
                           hasdata |-> FALSE, data |-> <<>>]]

\* mutant: a pktsize below the header size is rejected
ReceivedPacket_reject_short(header) ==
  IF Len(header) # HEADER_SIZE
  THEN [err |-> Raise("HeaderSizeError", <<Len(header)>>), header |-> header, self |-> NoObject]
  ELSE LET u == unpack_header(header)
       IN  IF u.sync # SYNC
           THEN [err |-> Raise("SyncError", u.sync), header |-> header, self |-> NoObject]
           ELSE IF u.pktsize < HEADER_SIZE
           THEN [err |-> Raise("HeaderSizeError", <<u.pktsize>>), header |-> header,
                 self |-> NoObject]
           ELSE [err |-> NoError,
                 header |-> pack_header(header, u.msgtype, u.pktsize, 0, u.timestamp),
                 self |-> [msgtype |-> u.msgtype, pktsize |-> u.pktsize,
                           checksum |-> u.checksum, timestamp |-> u.timestamp,
                           datasize |-> u.pktsize - HEADER_SIZE,
                           hasdata |-> FALSE, data |-> <<>>]]

ReceivedPacket(header) ==
  IF Len(header) # HEADER_SIZE
  THEN [err |-> Raise("HeaderSizeError", <<Len(header)>>), header |-> header, self |-> NoObject]
  ELSE LET u == unpack_header(header)
       IN  IF u.sync # SYNC
           THEN [err |-> Raise("SyncError", u.sync), header |-> header, self |-> NoObject]
           ELSE [err |-> NoError,
                 header |-> pack_header(header, u.msgtype, u.pktsize, 0, u.timestamp),
                 self |-> [msgtype |-> u.msgtype, pktsize |-> u.pktsize,
                           checksum |-> u.checksum, timestamp |-> u.timestamp,
                           datasize |-> u.pktsize - HEADER_SIZE,
                           hasdata |-> FALSE, data |-> <<>>]]

\* mutant: data of a length other than datasize is refused
validate_lencheck(self, hdr, data) ==
  LET rxchecksum0 == calculateChecksum(hdr, 0)
      rxchecksum1 == calculateChecksum(data, rxchecksum0)
  IN  [self |-> [self EXCEPT !.hasdata = TRUE, !.data = data],
       header |-> hdr,
       rxchecksum |-> rxchecksum1,
       err |-> IF rxchecksum1 # self.checksum \/ Len(data) # self.datasize
               THEN Raise("ChecksumError", <<rxchecksum1>>) ELSE NoError]

\* mutant: the computed checksum is stored over the received one
validate_overwrite(self, hdr, data) ==
  LET rxchecksum0 == calculateChecksum(hdr, 0)
      rxchecksum1 == calculateChecksum(data, rxchecksum0)
  IN  [self |-> [self EXCEPT !.hasdata = TRUE, !.data = data, !.checksum = rxchecksum1],
       header |-> hdr,
       rxchecksum |-> rxchecksum1,
       err |-> IF rxchecksum1 # self.checksum
               THEN Raise("ChecksumError", <<rxchecksum1>>) ELSE NoError]

\* ReceivedPacket.validate(data) on the object self whose header buffer is hdr
validate(self, hdr, data) ==
  LET rxchecksum0 == calculateChecksum(hdr, 0)
      rxchecksum1 == calculateChecksum(data, rxchecksum0)
  IN  [self |-> [self EXCEPT !.hasdata = TRUE, !.data = data],
       header |-> hdr,
       rxchecksum |-> rxchecksum1,
       err |-> IF rxchecksum1 # self.checksum
               THEN Raise("ChecksumError", <<rxchecksum1>>) ELSE NoError]

\* ------------------------------------------------------- input sets
DataBytes == {65, 66}

RECURSIVE SeqsUpTo(_, _)
SeqsUpTo(S, n) ==
  IF n = 0 THEN {<<>>}
  ELSE LET shorter == SeqsUpTo(S, n - 1)
       IN  shorter \cup {<<b>> \o s : b \in S, s \in {t \in shorter : Len(t) = n - 1}}

DataSeqs == SeqsUpTo(DataBytes, MaxLen)

\* message type codes: DATA_FROM_INSTRUMENT and PICKLED_DATA_FROM_DRIVER
MsgTypes == {1, 9}

\* 1234.5 as a float; 5 and 2^53 + 1 as longs
Timestamps ==
  {PyFloat(0, 1033, IntToBits(842, 12) \o Zeros(40)),
   PyLong(0, <<1, 0, 1>>),
   PyLong(0, <<1>> \o Zeros(52) \o <<1>>)}

\* headers a desynchronised or corrupted stream may deliver
SyncVariants == {SYNC, <<0, 157, 122>>, <<163, 0, 122>>, <<163, 157, 0>>}
WirePktSizes == {0, 15, 16, 65535}
WireChecksums == {0, 4660}
\* a NaN with a payload bit, and 1234.5
WireTimestamps == {<<127, 248, 0, 0, 0, 0, 0, 1>>, <<64, 147, 74, 0, 0, 0, 0, 0>>}
WirePayloads == {d \in DataSeqs : Len(d) = MaxLen \/ Len(d) = 0}

Rest(w) == SubSeq(w, HEADER_SIZE + 1, Len(w))

FlipBit(w, i) ==
  LET k == (i - 1) \div 8 + 1
      m == 2 ^ (7 - ((i - 1) % 8))
  IN  [w EXCEPT ![k] = Xor(w[k], m)]

\* ---------------------------------------------------------- state
VARIABLES
  state,       \* "Idle", "InFlight", "HeaderParsed", "Rejected", "Validated", "Failed"
  sent,        \* what makepacket was called with (made = FALSE: nothing was built)
  wire,        \* the bytes the transport delivers
  flip,        \* which bit of wire the transport flipped (0: none)
  rxheader,    \* the header bytes as handed to the constructor
  header,      \* the caller's header bytearray, aliased by self.header
  rp,          \* the ReceivedPacket object's attributes
  err,         \* the exception the last call raised
  rxchecksum,  \* validate's local rxchecksum, the argument of ChecksumError
  history      \* the outcomes of the validate calls made so far

vars == <<state, sent, wire, flip, rxheader, header, rp, err, rxchecksum, history>>

NotSent == [made |-> FALSE, msgtype |-> 0, timestamp |-> PyLong(0, <<>>), data |-> <<>>]

Init ==
  /\ state = "Idle"
  /\ sent = NotSent
  /\ wire = <<>>
  /\ flip = 0
  /\ rxheader = <<>>
  /\ header = <<>>
  /\ rp = NoObject
  /\ err = NoError
  /\ rxchecksum = 0
  /\ history = {}

\* the sender builds a packet; struct's 'B' and 'H' take 0..255 and 0..65535
MakePacket(msgtype, timestamp, data) ==
  /\ state = "Idle"
  /\ msgtype \in 0..255
  /\ HEADER_SIZE + Len(data) < MAX_PACKET_SIZE
  /\ wire' = makepacket(msgtype, timestamp, data)
  /\ sent' = [made |-> TRUE, msgtype |-> msgtype, timestamp |-> timestamp, data |-> data]
  /\ state' = "InFlight"
  /\ UNCHANGED <<flip, rxheader, header, rp, err, rxchecksum, history>>

\* the stream delivers bytes no makepacket call produced
ArbitraryPacket(sync, msgtype, pktsize, checksum, ts, payload) ==
  /\ state = "Idle"
  /\ wire' = sync \o <<msgtype, pktsize \div 256, pktsize % 256,
                       checksum \div 256, checksum % 256>> \o ts \o payload
  /\ state' = "InFlight"
  /\ UNCHANGED <<sent, flip, rxheader, header, rp, err, rxchecksum, history>>

\* the transport flips one bit of a built packet
Corrupt(i) ==
  /\ state = "InFlight"
  /\ sent.made
  /\ flip = 0
  /\ wire' = FlipBit(wire, i)
  /\ flip' = i
  /\ UNCHANGED <<state, sent, rxheader, header, rp, err, rxchecksum, history>>

\* the caller receives n bytes into a new bytearray and constructs the parser
Construct(n) ==
  /\ state = "InFlight"
  /\ n <= Len(wire)
  /\ \E r \in {ReceivedPacket(SubSeq(wire, 1, n))} :
        /\ rxheader' = SubSeq(wire, 1, n)
        /\ header' = r.header
        /\ rp' = r.self
        /\ err' = r.err
        /\ state' = IF r.err = NoError THEN "HeaderParsed" ELSE "Rejected"
  /\ UNCHANGED <<sent, wire, flip, rxchecksum, history>>

\* the caller passes payload bytes to validate
Validate(data) ==
  /\ state \in {"HeaderParsed", "Validated", "Failed"}
  /\ \E r \in {validate(rp, header, data)} :
        /\ rp' = r.self
        /\ header' = r.header
        /\ rxchecksum' = r.rxchecksum
        /\ err' = r.err
        /\ state' = IF r.err = NoError THEN "Validated" ELSE "Failed"
        /\ history' = history \cup {IF r.err = NoError THEN "ok" ELSE "fail"}
  /\ UNCHANGED <<sent, wire, flip, rxheader>>

\* what the caller may hand to validate: the bytes after the header, those
\* bytes with two more equal bytes read, nothing, or one stray byte
PayloadReads ==
  {Rest(wire), Rest(wire) \o <<65, 65>>, <<>>, <<66>>}

Next ==
  \/ \E m \in MsgTypes, t \in Timestamps, d \in DataSeqs : MakePacket(m, t, d)
  \/ \E s \in SyncVariants, p \in WirePktSizes, c \in WireChecksums,
        t \in WireTimestamps, d \in WirePayloads : ArbitraryPacket(s, 1, p, c, t, d)
  \/ \E i \in 1..(8 * Len(wire)) : Corrupt(i)
  \/ \E n \in (HEADER_SIZE - Slack)..(HEADER_SIZE + Slack) : Construct(n)
  \/ \E d \in PayloadReads : Validate(d)

Spec == Init /\ [][Next]_vars

\* ------------------------------------------------------- phases
\* the constructor has been called
AfterInit == state \in {"HeaderParsed", "Rejected", "Validated", "Failed"}
\* the constructor returned an object
Constructed == state \in {"HeaderParsed", "Validated", "Failed"}
\* validate has been called; rp.data is the argument of the last call
Called == state \in {"Validated", "Failed"}
\* the caller passed exactly the 16 header bytes
FullHeader == AfterInit /\ Len(rxheader) = HEADER_SIZE

FlipInSync == flip \in 1..24
FlipInChecksum == flip \in 49..64

ZeroedChecksum(h) == [h EXCEPT ![7] = 0, ![8] = 0]

\* ------------------------------------------------------- claims

\* C1: round trip.  For a packet built by makepacket and delivered intact,
\* ReceivedPacket on its first 16 bytes raises nothing and datasize is
\* len(data); validate on the remaining datasize bytes raises nothing and
\* msgtype, timestamp (Python ==) and data equal what makepacket was given.
C1_RoundTrip ==
  (sent.made /\ flip = 0 /\ FullHeader) =>
     /\ state # "Rejected"
     /\ rp.datasize = Len(sent.data)
     /\ (Called /\ rp.data = SubSeq(Rest(wire), 1, rp.datasize)) =>
          /\ state = "Validated"
          /\ rp.msgtype = sent.msgtype
          /\ PyEq(rp.timestamp, sent.timestamp)
          /\ rp.data = sent.data

\* (supporting C1) the same round trip holds whenever the timestamp is a
\* float other than NaN or a long that a double holds exactly
RoundTripRepresentable ==
  (sent.made /\ flip = 0 /\ FullHeader /\ PyEq(sent.timestamp, sent.timestamp)
     /\ (sent.timestamp.kind = "long" => LongExact(sent.timestamp))) =>
     /\ state # "Rejected"
     /\ rp.datasize = Len(sent.data)
     /\ (Called /\ rp.data = SubSeq(Rest(wire), 1, rp.datasize)) =>
          /\ state = "Validated"
          /\ rp.msgtype = sent.msgtype
          /\ PyEq(rp.timestamp, sent.timestamp)
          /\ rp.data = sent.data

\* C2 (as claimed): after a single bit flip anywhere outside the checksum
\* field, the receive sequence ends in ChecksumError.
C2_AnyFlipChecksumError ==
  (sent.made /\ flip # 0 /\ ~FlipInChecksum /\ FullHeader) =>
     /\ state # "Rejected"
     /\ (Called /\ rp.data = Rest(wire)) => err.type = "ChecksumError"

\* C2 (amended): a flipped bit of the sync marker makes the constructor raise
\* SyncError; a flipped bit of msgtype, pktsize, timestamp or payload lets the
\* constructor return and makes validate(payload) raise ChecksumError.
C2_FlipDetected ==
  (sent.made /\ flip # 0 /\ FullHeader) =>
     /\ FlipInSync => (state = "Rejected" /\ err.type = "SyncError")
     /\ (~FlipInSync /\ ~FlipInChecksum) =>
          /\ state # "Rejected"
          /\ (Called /\ rp.data = Rest(wire)) =>
               (state = "Failed" /\ err.type = "ChecksumError")

C2_Witness ==
  /\ sent.made /\ flip > 8 * HEADER_SIZE
  /\ state = "Failed" /\ rp.data = Rest(wire) /\ err.type = "ChecksumError"

\* C3: while no validate call has succeeded, the parser exposes no payload.
C3_NoPayloadBeforeSuccess ==
  (Constructed /\ "ok" \notin history) => ~rp.hasdata

\* C4: the constructor raises HeaderSizeError iff the buffer is not 16 bytes
\* long, else SyncError iff its first three bytes are not SYNC, else returns.
C4_CtorOutcome ==
  AfterInit =>
     /\ (state = "Rejected" /\ err.type = "HeaderSizeError")
          <=> Len(rxheader) # HEADER_SIZE
     /\ (state = "Rejected" /\ err.type = "SyncError")
          <=> (Len(rxheader) = HEADER_SIZE /\ SubSeq(rxheader, 1, 3) # SYNC)
     /\ Constructed
          <=> (Len(rxheader) = HEADER_SIZE /\ SubSeq(rxheader, 1, 3) = SYNC)

\* a buffer of the wrong length whose sync is wrong too: HeaderSizeError wins
C4_Witness ==
  /\ state = "Rejected" /\ err.type = "HeaderSizeError"
  /\ Len(rxheader) > HEADER_SIZE /\ SubSeq(rxheader, 1, 3) # SYNC

\* C5: checksumming a buffer in one pass equals checksumming a prefix and
\* seeding the rest with the result, at every split point; so validate's
\* two-step value is the checksum of zeroed header ++ payload.
C5_Chaining ==
  /\ state = "InFlight" => \A k \in 0..Len(wire) :
        calculateChecksum(wire, 0)
          = calculateChecksum(SubSeq(wire, k + 1, Len(wire)),
                              calculateChecksum(SubSeq(wire, 1, k), 0))
  /\ Called => rxchecksum = calculateChecksum(header \o rp.data, 0)

C5_Witness ==
  /\ state = "Validated" /\ rp.data # <<>>
  /\ rxchecksum # 0 /\ calculateChecksum(rp.data, 0) # 0
  /\ calculateChecksum(header, 0) # 0

\* C6: makepacket returns 16 + len(data) bytes, the bytes after the header
\* are data, and the checksum field is the XOR of the whole buffer read with
\* the checksum field zero.
C6_SelfChecksum ==
  (state = "InFlight" /\ sent.made /\ flip = 0) =>
     /\ Len(wire) = HEADER_SIZE + Len(sent.data)
     /\ Rest(wire) = sent.data
     /\ wire[7] * 256 + wire[8] = calculateChecksum(ZeroedChecksum(wire), 0)

C6_Witness ==
  /\ state = "InFlight" /\ sent.made /\ flip = 0 /\ Len(sent.data) = MaxLen
  /\ calculateChecksum(sent.data, 0) # 0 /\ wire[8] # 0

\* C7: after the constructor returns, the stored header is the received one
\* with only bytes 6-7 zeroed and the checksum attribute is the received
\* checksum; after it raises, the buffer is as it was passed in.
C7_HeaderZeroed ==
  AfterInit =>
     IF state = "Rejected" THEN header = rxheader
     ELSE /\ header = ZeroedChecksum(rxheader)
          /\ rp.checksum = rxheader[7] * 256 + rxheader[8]

C7_Witness ==
  /\ state = "HeaderParsed" /\ rp.checksum # 0
  /\ header # rxheader /\ header = ZeroedChecksum(rxheader)

\* C8: a 16-byte header with the right sync always constructs, and datasize
\* is pktsize - 16, negative when the pktsize field is below 16.
C8_ShortPktsizeAccepted ==
  (FullHeader /\ SubSeq(rxheader, 1, 3) = SYNC) =>
     /\ Constructed
     /\ rp.datasize = rxheader[5] * 256 + rxheader[6] - HEADER_SIZE

C8_Witness == Constructed /\ rp.pktsize < HEADER_SIZE /\ rp.datasize < 0

\* C9: validate succeeds exactly when the XOR of the zeroed header and the
\* bytes passed equals the received checksum, whatever the length of those
\* bytes; the true payload followed by two equal bytes is accepted.
C9_NoLengthCheck ==
  /\ Called =>
       ((state = "Validated")
          <=> calculateChecksum(header \o rp.data, 0) = rp.checksum)
  /\ (Called /\ sent.made /\ flip = 0 /\ rp.data = sent.data \o <<65, 65>>) =>
       state = "Validated"

C9_Witness ==
  /\ state = "Validated" /\ sent.made
  /\ rp.data = sent.data \o <<65, 65>> /\ Len(rp.data) # rp.datasize

\* C10: a validate call changes neither the stored header nor msgtype,
\* pktsize, checksum, timestamp, datasize; its outcome is decided by its
\* argument alone, so after a ChecksumError the matching payload still passes.
HeaderAttrs(o) == <<o.msgtype, o.pktsize, o.checksum, o.timestamp, o.datasize>>

C10_ValidateFrame ==
  [][(Constructed /\ Called')
       => /\ header' = header
          /\ HeaderAttrs(rp') = HeaderAttrs(rp)
          /\ (state' = "Validated")
               <=> (calculateChecksum(rp'.data, calculateChecksum(header, 0)) = rp.checksum)
          /\ (state = "Failed" /\ sent.made /\ flip = 0 /\ rp'.data = sent.data)
               => state' = "Validated"]_vars

C10_Witness == state = "Validated" /\ "fail" \in history /\ rp.data = sent.data /\ sent.made

====
